---- MODULE Spec2Model ----
(***************************************************************************)
(* A model of main.go of maxminddb-to-nft: the archive extraction, the     *)
(* aggregation of the decoder's records into per-country buckets and the   *)
(* generation of the nftables set files.                                   *)
(*                                                                         *)
(* Strings the code inspects character by character are sequences: an      *)
(* archive entry name is a sequence of one-character strings, a country    *)
(* code is a sequence of bytes (Go's len and range work on bytes/runes).   *)
(* Text that is only written out is a TLA+ string built with \o.           *)
(***************************************************************************)
EXTENDS Integers, Sequences, FiniteSets, TLC

VARIABLES
    pc,        \* position of run(): the stage about to execute, "done" or "failed"
    err,       \* the error run() returns ("none" when nil)
    archive,   \* the tar entries the downloaded stream holds, in archive order
    db,        \* the (prefix, record) pairs a valid database yields, in order
    visited,   \* number of tr.Next() calls that returned a header or an error
    read,      \* indexes of the entries whose content io.ReadAll has read
    mmdbData,  \* the bytes extractMMDBFromTar returned
    ipv4,      \* g.ipv4: country code -> sequence of prefixes
    ipv6,      \* g.ipv6
    fs,        \* the files on disk: name -> sequence of lines
    dirs,      \* the directories on disk
    fs0,       \* the files on disk when the current run started
    dirs0,     \* the directories on disk when the current run started
    todo,      \* keys the current range loop of generateCountryFiles has not yet yielded
    trace,     \* the stages this run has executed, with their outcome
    lost,      \* number of writes of this run that failed (their text is not in the file)
    runNo,     \* which invocation of the program this is
    prevOk,    \* the previous invocation succeeded with no failed write
    path,      \* argument of isValidTarPath (path-check specification)
    pathOk,    \* its result
    code,      \* argument of isValidCountryCode (country-code specification)
    codeOk     \* its result

vars == <<pc, err, archive, db, visited, read, mmdbData, ipv4, ipv6, fs, dirs,
          fs0, dirs0, todo, trace, lost, runNo, prevOk, path, pathOk, code, codeOk>>

-----------------------------------------------------------------------------
(* Bounds of the model *)

MaxPathLen == 6
MaxCodeLen == 3
MaxEntries == 2
MaxRecords == 3
MaxDbLen == 2
MaxRuns == 2
MaxLost == 1

-----------------------------------------------------------------------------
(* Generic sequence helpers *)

SeqsUpTo(S, n) == UNION {[1..k -> S] : k \in 0..n}

Last(s) == s[Len(s)]

HasPrefix(s, p) == Len(s) >= Len(p) /\ SubSeq(s, 1, Len(p)) = p

HasSuffix(s, p) == Len(s) >= Len(p) /\ SubSeq(s, Len(s) - Len(p) + 1, Len(s)) = p

Contains(s, sub) ==
    \E i \in 1..(Len(s) - Len(sub) + 1) : SubSeq(s, i, i + Len(sub) - 1) = sub

-----------------------------------------------------------------------------
(* path/filepath.Clean on a Unix build (Separator = '/'), as isValidTarPath
   uses it. *)

DotDot == <<".", ".">>

\* the elements of p between separators, empty ones included
RECURSIVE SplitPath(_, _)
SplitPath(p, cur) ==
    IF p = <<>> THEN <<cur>>
    ELSE IF Head(p) = "/" THEN <<cur>> \o SplitPath(Tail(p), <<>>)
    ELSE SplitPath(Tail(p), Append(cur, Head(p)))

\* Clean's element loop: drop empty and "." elements, let ".." remove the
\* element before it, keep leading ".." elements of a relative path only
RECURSIVE CleanElems(_, _, _)
CleanElems(elems, out, rooted) ==
    IF elems = <<>> THEN out
    ELSE LET e == Head(elems)
             rest == Tail(elems)
         IN  IF e = <<>> \/ e = <<".">> THEN CleanElems(rest, out, rooted)
             ELSE IF e = DotDot
                  THEN IF Len(out) > 0 /\ Last(out) # DotDot
                       THEN CleanElems(rest, SubSeq(out, 1, Len(out) - 1), rooted)
                       ELSE IF rooted THEN CleanElems(rest, out, rooted)
                       ELSE CleanElems(rest, Append(out, e), rooted)
                  ELSE CleanElems(rest, Append(out, e), rooted)

RECURSIVE JoinPath(_)
JoinPath(elems) ==
    IF elems = <<>> THEN <<>>
    ELSE IF Len(elems) = 1 THEN Head(elems)
    ELSE Head(elems) \o <<"/">> \o JoinPath(Tail(elems))

Clean(p) ==
    IF p = <<>> THEN <<".">>
    ELSE LET rooted == Head(p) = "/"
             body == JoinPath(CleanElems(SplitPath(p, <<>>), <<>>, rooted))
         IN  IF rooted THEN <<"/">> \o body
             ELSE IF body = <<>> THEN <<".">> ELSE body

isValidTarPath(p) ==
    LET cleanPath == Clean(p)
    IN  /\ ~Contains(cleanPath, DotDot)
        /\ ~HasPrefix(cleanPath, <<"/">>)
        /\ ~HasPrefix(cleanPath, <<"\\">>)

-----------------------------------------------------------------------------
(* Country codes: Go strings as byte sequences *)

RuneError == 65533

IsCont(b) == b >= 128 /\ b <= 191

\* the runes `for _, r := range s` yields: ASCII bytes, two-byte sequences,
\* and RuneError (width 1) for every byte that starts no valid encoding
RECURSIVE Runes(_)
Runes(s) ==
    IF s = <<>> THEN <<>>
    ELSE LET b == Head(s)
         IN  IF b < 128 THEN <<b>> \o Runes(Tail(s))
             ELSE IF b >= 194 /\ b <= 223 /\ Len(s) >= 2 /\ IsCont(s[2])
                  THEN <<(b - 192) * 64 + (s[2] - 128)>> \o Runes(Tail(Tail(s)))
                  ELSE <<RuneError>> \o Runes(Tail(s))

\* unicode.ToUpper on the runes the model's alphabet can form
ToUpperRune(r) ==
    IF r >= 97 /\ r <= 122 THEN r - 32
    ELSE IF r >= 224 /\ r <= 254 /\ r # 247 THEN r - 32
    ELSE r

EncodeRune(r) ==
    IF r < 128 THEN <<r>>
    ELSE IF r < 2048 THEN <<192 + (r \div 64), 128 + (r % 64)>>
    ELSE <<224 + (r \div 4096), 128 + ((r \div 64) % 64), 128 + (r % 64)>>

RECURSIVE EncodeRunes(_)
EncodeRunes(rs) ==
    IF rs = <<>> THEN <<>> ELSE EncodeRune(Head(rs)) \o EncodeRunes(Tail(rs))

\* strings.ToUpper: maps every rune and encodes the result again (an invalid
\* byte comes back as the encoding of RuneError)
ToUpper(s) == EncodeRunes([i \in 1..Len(Runes(s)) |-> ToUpperRune(Runes(s)[i])])

\* isAlphaOnly with the upper limit 'z' in place of 'Z'
isAlphaOnlyUpToLowerZ(s) ==
    \A i \in 1..Len(Runes(s)) : ~(Runes(s)[i] < 65 \/ Runes(s)[i] > 122)

isAlphaOnly(s) == \A i \in 1..Len(Runes(s)) : ~(Runes(s)[i] < 65 \/ Runes(s)[i] > 90)

isValidCountryCode(c) ==
    /\ Len(c) = 2
    /\ c = ToUpper(c)
    /\ isAlphaOnly(c)

-----------------------------------------------------------------------------
(* The archive: tar entries in stream order.  An entry is its header's Name
   and Size, its content (a token standing for Size bytes) and where, if
   anywhere, the stream is damaged: in the header or within the content. *)

maxDownloadSize == 1024 * 1024 * 1024

NoData == "nil"

MmdbSuffix == <<".", "m", "m", "d", "b">>

\* the size check with >= in place of >
TooLargeInclusive(size) == size >= maxDownloadSize

\* hdr.Size > maxDownloadSize
TooLarge(size) == size > maxDownloadSize

\* the result of extractMMDBFromTar: the error ("none" for nil), the bytes,
\* how many tr.Next() calls were made before it returned and which entries'
\* content was read
ExtractResult(e, d, n, r) == [err |-> e, data |-> d, visited |-> n, read |-> r]

\* the for loop of extractMMDBFromTar, about to call tr.Next() for entry i
RECURSIVE ExtractFrom(_, _)
ExtractFrom(ar, i) ==
    IF i > Len(ar) THEN ExtractResult("MMDB file not found in archive", NoData, i, {})
    ELSE LET hdr == ar[i]
         IN  IF hdr.fault = "header"
             THEN ExtractResult("reading tar header", NoData, i, {})
             ELSE IF ~isValidTarPath(hdr.name) THEN ExtractFrom(ar, i + 1)
             ELSE IF HasSuffix(hdr.name, MmdbSuffix)
                  THEN IF TooLarge(hdr.size)
                       THEN ExtractResult("MMDB file too large", NoData, i, {})
                       ELSE IF hdr.fault = "content"
                            THEN ExtractResult("reading MMDB file", NoData, i, {i})
                            ELSE ExtractResult("none", hdr.data, i, {i})
                  ELSE ExtractFrom(ar, i + 1)

\* the loop without its isValidTarPath check
RECURSIVE ExtractFromUnchecked(_, _)
ExtractFromUnchecked(ar, i) ==
    IF i > Len(ar) THEN ExtractResult("MMDB file not found in archive", NoData, i, {})
    ELSE LET hdr == ar[i]
         IN  IF hdr.fault = "header"
             THEN ExtractResult("reading tar header", NoData, i, {})
             ELSE IF HasSuffix(hdr.name, MmdbSuffix)
                  THEN IF TooLarge(hdr.size)
                       THEN ExtractResult("MMDB file too large", NoData, i, {})
                       ELSE IF hdr.fault = "content"
                            THEN ExtractResult("reading MMDB file", NoData, i, {i})
                            ELSE ExtractResult("none", hdr.data, i, {i})
                  ELSE ExtractFromUnchecked(ar, i + 1)

extractWithoutPathCheck(ar) == ExtractFromUnchecked(ar, 1)

extractMMDBFromTar(ar) == ExtractFrom(ar, 1)

-----------------------------------------------------------------------------
(* Prefixes and their text.  A prefix is its family, the address as four
   octets or eight 16-bit groups, and the prefix length. *)

HexDigit == <<"0", "1", "2", "3", "4", "5", "6", "7", "8", "9", "a", "b", "c", "d", "e", "f">>

RECURSIVE Hex(_)
Hex(n) == IF n < 16 THEN HexDigit[n + 1] ELSE Hex(n \div 16) \o HexDigit[(n % 16) + 1]

RECURSIVE JoinStr(_, _)
JoinStr(parts, sep) ==
    IF parts = <<>> THEN ""
    ELSE IF Len(parts) = 1 THEN Head(parts)
    ELSE Head(parts) \o sep \o JoinStr(Tail(parts), sep)

\* netip.Addr.String for an IPv6 address: lowercase hex groups, the leftmost
\* longest run of two or more zero groups written "::"
Addr6String(g) ==
    LET zeroRun(i, j) == i <= j /\ \A k \in i..j : g[k] = 0
        runs == {r \in (1..8) \X (1..8) : r[2] > r[1] /\ zeroRun(r[1], r[2])}
        hex(i, j) == JoinStr([k \in 1..(j - i + 1) |-> Hex(g[i + k - 1])], ":")
    IN  IF runs = {} THEN hex(1, 8)
        ELSE LET best == CHOOSE r \in runs :
                            \A q \in runs :
                                \/ r[2] - r[1] > q[2] - q[1]
                                \/ (r[2] - r[1] = q[2] - q[1] /\ r[1] <= q[1])
             IN  hex(1, best[1] - 1) \o "::" \o hex(best[2] + 1, 8)

Addr4String(o) == JoinStr([k \in 1..4 |-> ToString(o[k])], ".")

\* netip.Prefix.String
PrefixString(pfx) ==
    (IF pfx.is4 THEN Addr4String(pfx.addr) ELSE Addr6String(pfx.addr))
        \o "/" \o ToString(pfx.bits)

\* netip.Addr.Is4
Is4(pfx) == pfx.is4

P1 == [is4 |-> TRUE, addr |-> <<1, 2, 3, 0>>, bits |-> 24]
P2 == [is4 |-> TRUE, addr |-> <<4, 5, 6, 0>>, bits |-> 24]
Q1 == [is4 |-> FALSE, addr |-> <<8193, 3512, 0, 0, 0, 0, 0, 0>>, bits |-> 32]

-----------------------------------------------------------------------------
(* loadGeoIPData: the buckets *)

EmptyMap == [k \in {} |-> <<>>]

\* g.ipv4[code] = append(g.ipv4[code], pfx)
AppendTo(m, k, v) ==
    [x \in DOMAIN m \cup {k} |->
        IF x = k THEN (IF k \in DOMAIN m THEN Append(m[k], v) ELSE <<v>>) ELSE m[x]]

\* one iteration of the range over db.Networks(); b is [v4, v6]
AddRecord(b, r) ==
    IF ~r.decoded THEN b
    ELSE IF r.code = <<>> \/ ~isValidCountryCode(r.code) THEN b
    ELSE IF Is4(r.pfx) THEN [b EXCEPT !.v4 = AppendTo(b.v4, r.code, r.pfx)]
    ELSE [b EXCEPT !.v6 = AppendTo(b.v6, r.code, r.pfx)]

\* the loop with `break` in place of `continue` on a record that fails to decode
RECURSIVE AddRecordsUntilDecodeError(_, _)
AddRecordsUntilDecodeError(b, rs) ==
    IF rs = <<>> \/ ~Head(rs).decoded THEN b
    ELSE AddRecordsUntilDecodeError(AddRecord(b, Head(rs)), Tail(rs))

RECURSIVE AddRecords(_, _)
AddRecords(b, rs) ==
    IF rs = <<>> THEN b ELSE AddRecords(AddRecord(b, Head(rs)), Tail(rs))

\* maxminddb.FromBytes accepts the bytes of a database and nothing else
FromBytesFails(data) == data # "mmdb"

-----------------------------------------------------------------------------
(* The writer: files are sequences of lines *)

Letters == <<"A", "B", "C", "D", "E", "F", "G", "H", "I", "J", "K", "L", "M",
             "N", "O", "P", "Q", "R", "S", "T", "U", "V", "W", "X", "Y", "Z">>

LowerLetters == <<"a", "b", "c", "d", "e", "f", "g", "h", "i", "j", "k", "l", "m",
                  "n", "o", "p", "q", "r", "s", "t", "u", "v", "w", "x", "y", "z">>

\* the text of a country code held as bytes
RECURSIVE CodeStr(_)
CodeStr(c) ==
    IF c = <<>> THEN ""
    ELSE (IF Head(c) \in 65..90 THEN Letters[Head(c) - 64]
          ELSE IF Head(c) \in 97..122 THEN LowerLetters[Head(c) - 96]
          ELSE "?") \o CodeStr(Tail(c))

\* Go's < on strings: bytewise lexicographic
RECURSIVE StrLess(_, _)
StrLess(a, b) ==
    IF b = <<>> THEN FALSE
    ELSE IF a = <<>> THEN TRUE
    ELSE IF Head(a) # Head(b) THEN Head(a) < Head(b)
    ELSE StrLess(Tail(a), Tail(b))

\* the keys without sort.Strings: an order the map may yield, here descending
RECURSIVE KeysUnsorted(_)
KeysUnsorted(S) ==
    IF S = {} THEN <<>>
    ELSE LET m == CHOOSE x \in S : \A y \in S \ {x} : StrLess(y, x)
         IN  <<m>> \o KeysUnsorted(S \ {m})

\* sort.Strings over the keys collected from the map
RECURSIVE SortStrings(_)
SortStrings(S) ==
    IF S = {} THEN <<>>
    ELSE LET m == CHOOSE x \in S : \A y \in S \ {x} : StrLess(x, y)
         IN  <<m>> \o SortStrings(S \ {m})

Header == <<"#!/usr/sbin/nft -f", "table inet geoip {">>

Closing == <<"}">>

writeNFTSet(c, prefixes, ipType) ==
    <<"    set " \o CodeStr(c) \o " {",
      "        type " \o ipType \o "_addr",
      "        flags interval",
      "        elements = { "
          \o JoinStr([i \in 1..Len(prefixes) |-> PrefixString(prefixes[i])], ", ")
          \o " }",
      "    }">>

\* the set blocks generateGlobalFile writes for the codes, in the given order
RECURSIVE GlobalBlocks(_, _, _)
GlobalBlocks(countryMap, codes, ipType) ==
    IF codes = <<>> THEN <<>>
    ELSE (IF Len(countryMap[Head(codes)]) = 0 THEN <<>>
          ELSE writeNFTSet(Head(codes), countryMap[Head(codes)], ipType))
         \o GlobalBlocks(countryMap, Tail(codes), ipType)

\* what a file holds after its three groups of writes (header, set blocks,
\* closing line); a failed write leaves its text out, and the code goes on
Written(blocks, failed) ==
    (IF failed = "header" THEN <<>> ELSE Header)
        \o (IF failed = "set" THEN <<>> ELSE blocks)
        \o (IF failed = "closing" THEN <<>> ELSE Closing)

GlobalFileLines(countryMap, ipType, failed) ==
    Written(GlobalBlocks(countryMap, SortStrings(DOMAIN countryMap), ipType), failed)

CountryFileLines(c, prefixes, ipType, failed) ==
    Written(writeNFTSet(c, prefixes, ipType), failed)

CountryDir(c) == "by_country/" \o CodeStr(c)

CountryFileName(c, ipType) == CountryDir(c) \o "/" \o CodeStr(c) \o "_" \o ipType \o ".nft"

\* OpenFile with O_APPEND in place of O_TRUNC: an existing file keeps its lines
OpenFileAppend(files, name) ==
    [f \in DOMAIN files \cup {name} |-> IF f \in DOMAIN files THEN files[f] ELSE <<>>]

\* os.OpenFile(name, O_CREATE|O_WRONLY|O_TRUNC): the file exists and is empty
OpenFile(files, name) ==
    [f \in DOMAIN files \cup {name} |-> IF f = name THEN <<>> ELSE files[f]]

\* the writes to an open file, at its end
WriteLines(files, name, lines) == [files EXCEPT ![name] = @ \o lines]

\* the error check left out: the next stage runs whatever the error
ThenUnchecked(e, next) == next

\* `if err != nil { return ... }`: the stage run() or generateAllFiles goes to
Then(e, next) == IF e # "none" THEN "failed" ELSE next

\* the stage joins the trace with its outcome
Note(tr, stage, e) == Append(tr, [stage |-> stage, ok |-> (e = "none")])

\* generateCountryFiles is one stage of many steps: its first step joins the
\* trace, a later one updates the outcome
NoteStep(tr, stage, e) ==
    IF tr # <<>> /\ Last(tr).stage = stage
    THEN [tr EXCEPT ![Len(tr)].ok = @ /\ (e = "none")]
    ELSE Note(tr, stage, e)

-----------------------------------------------------------------------------
(* Inputs of the model *)

NameFoo == <<"x", "/", "f", "o", "o", ".", "m", "m", "d", "b">>
NameEvil == <<".", ".", "/", "e", "v", "i", "l", ".", "m", "m", "d", "b">>
NameAbs == <<"/", "a", ".", "m", "m", "d", "b">>
NameDb == <<"d", "b", ".", "m", "m", "d", "b">>
NameTxt == <<"C", "O", "P", "Y", "I", "N", "G", ".", "t", "x", "t">>

Names == {NameFoo, NameEvil, NameAbs, NameDb, NameTxt}

Sizes == {1, maxDownloadSize, maxDownloadSize + 1}

Entry(n, sz, d, f) == [name |-> n, size |-> sz, data |-> d, fault |-> f]

\* intact entries, and two entries where the stream is damaged
Entries ==
    {Entry(n, sz, d, "none") : n \in Names, sz \in Sizes, d \in {"mmdb", "junk"}}
        \cup {Entry(NameFoo, 1, "mmdb", "header"), Entry(NameFoo, 1, "mmdb", "content")}

US == <<85, 83>>
DE == <<68, 69>>
LowerUS == <<117, 115>>

Record(p, ok, c) == [pfx |-> p, decoded |-> ok, code |-> c]

Records ==
    {Record(p, TRUE, c) : p \in {P1, P2, Q1}, c \in {US, DE, LowerUS, <<>>}}
        \cup {Record(P1, FALSE, <<>>)}

\* the archives and database records of the whole-run specification
RunArchives ==
    { <<Entry(NameEvil, 1, "junk", "none"), Entry(NameFoo, 1, "mmdb", "none")>>,
      <<Entry(NameFoo, maxDownloadSize + 1, "mmdb", "none")>>,
      <<Entry(NameTxt, 1, "junk", "none")>>,
      <<Entry(NameTxt, 1, "junk", "none"), Entry(NameDb, 1, "junk", "none")>> }

RunRecords ==
    {Record(P1, TRUE, US), Record(P2, TRUE, US), Record(P2, TRUE, DE),
     Record(Q1, TRUE, US), Record(Q1, TRUE, DE), Record(P2, TRUE, LowerUS)}

GlobalFile(ipType) == "geoip_" \o ipType \o ".nft"

OutputFiles ==
    {GlobalFile("ipv4"), GlobalFile("ipv6")}
        \cup {CountryFileName(c, t) : c \in {US, DE}, t \in {"ipv4", "ipv6"}}

OutputDirs == {"by_country"} \cup {CountryDir(c) : c \in {US, DE}}

\* what an earlier, unrelated run may have left in every output file
Stale == [f \in OutputFiles |-> <<"stale">>]

-----------------------------------------------------------------------------
(* Initial values *)

NoCheck == path = <<>> /\ pathOk = FALSE /\ code = <<>> /\ codeOk = FALSE

NoRun ==
    /\ err = "none"
    /\ visited = 0 /\ read = {}
    /\ ipv4 = EmptyMap /\ ipv6 = EmptyMap
    /\ todo = {} /\ trace = <<>> /\ lost = 0 /\ runNo = 1 /\ prevOk = FALSE

EmptyDisk == fs = EmptyMap /\ dirs = {} /\ fs0 = EmptyMap /\ dirs0 = {}

Idle == NoRun /\ EmptyDisk /\ archive = <<>> /\ db = <<>> /\ mmdbData = NoData

IdleUnchanged ==
    UNCHANGED <<err, archive, db, visited, read, mmdbData, ipv4, ipv6, fs, dirs,
                fs0, dirs0, todo, trace, lost, runNo, prevOk>>

\* newGeoIPGenerator and the state of the disk when main starts
Init ==
    /\ pc = "fetch"
    /\ NoRun /\ NoCheck
    /\ mmdbData = NoData
    /\ archive \in RunArchives
    /\ db \in SeqsUpTo(RunRecords, MaxDbLen)
    /\ \/ fs = EmptyMap /\ dirs = {}
       \/ fs = Stale /\ dirs = OutputDirs
    /\ fs0 = fs /\ dirs0 = dirs

-----------------------------------------------------------------------------
(* The stages of run() *)

\* downloadAndExtractMMDB up to the gzip reader: the request, the status
\* check, the gzip header
Fetch ==
    /\ pc = "fetch"
    /\ \E e \in {"none", "HTTP request failed", "HTTP status", "gzip reader"} :
        /\ err' = e
        /\ pc' = Then(e, "extract")
        /\ trace' = Note(trace, "fetch", e)
    /\ UNCHANGED <<archive, db, visited, read, mmdbData, ipv4, ipv6, fs, dirs, fs0,
                   dirs0, todo, lost, runNo, prevOk, path, pathOk, code, codeOk>>

Extract ==
    /\ pc = "extract"
    /\ LET r == extractMMDBFromTar(archive)
       IN  /\ err' = r.err
           /\ mmdbData' = r.data
           /\ visited' = r.visited
           /\ read' = r.read
           /\ pc' = Then(r.err, "load")
           /\ trace' = Note(trace, "extract", r.err)
    /\ UNCHANGED <<archive, db, ipv4, ipv6, fs, dirs, fs0, dirs0, todo, lost, runNo,
                   prevOk, path, pathOk, code, codeOk>>

LoadGeoIPData ==
    /\ pc = "load"
    /\ LET e == IF FromBytesFails(mmdbData) THEN "opening MMDB" ELSE "none"
           b == IF e = "none"
                THEN AddRecords([v4 |-> ipv4, v6 |-> ipv6], db)
                ELSE [v4 |-> ipv4, v6 |-> ipv6]
       IN  /\ err' = e
           /\ ipv4' = b.v4
           /\ ipv6' = b.v6
           /\ pc' = Then(e, "mkdir")
           /\ trace' = Note(trace, "load", e)
    /\ UNCHANGED <<archive, db, visited, read, mmdbData, fs, dirs, fs0, dirs0, todo,
                   lost, runNo, prevOk, path, pathOk, code, codeOk>>

-----------------------------------------------------------------------------
(* generateAllFiles *)

\* os.MkdirAll("by_country")
MkdirByCountry ==
    /\ pc = "mkdir"
    /\ \E e \in {"none", "creating by_country directory"} :
        /\ err' = e
        /\ dirs' = IF e = "none" THEN dirs \cup {"by_country"} ELSE dirs
        /\ pc' = Then(e, "global4")
        /\ trace' = Note(trace, "mkdir", e)
    /\ UNCHANGED <<archive, db, visited, read, mmdbData, ipv4, ipv6, fs, fs0, dirs0,
                   todo, lost, runNo, prevOk, path, pathOk, code, codeOk>>

\* the outcomes of the file-system calls made for one file: "none" (all
\* succeed), "mkdir" (MkdirAll fails), "open" (OpenFile fails), or the writes
\* of one group fail
WriteFailures == {"header", "set", "closing"}

MayFail(failed, blocks) ==
    /\ lost < MaxLost
    /\ failed = "set" => blocks # <<>>

generateGlobalFile(stage, countryMap, ipType, next, nextTodo, outcomes) ==
    /\ pc = stage
    /\ \E o \in outcomes \ {"mkdir"} :
        IF o = "open"
        THEN /\ err' = "creating file"
             /\ pc' = Then("creating file", next)
             /\ trace' = Note(trace, stage, "creating file")
             /\ UNCHANGED <<fs, lost, todo>>
        ELSE /\ o # "none" =>
                  MayFail(o, GlobalBlocks(countryMap, SortStrings(DOMAIN countryMap), ipType))
             /\ fs' = WriteLines(OpenFile(fs, GlobalFile(ipType)), GlobalFile(ipType),
                                 GlobalFileLines(countryMap, ipType, o))
             /\ lost' = IF o = "none" THEN lost ELSE lost + 1
             /\ err' = "none"
             /\ pc' = Then("none", next)
             /\ trace' = Note(trace, stage, "none")
             /\ todo' = nextTodo
    /\ UNCHANGED <<archive, db, visited, read, mmdbData, ipv4, ipv6, dirs, fs0, dirs0,
                   runNo, prevOk, path, pathOk, code, codeOk>>

\* one iteration of a range loop of generateCountryFiles: the map yields a
\* key it has not yielded yet, in no particular order
generateCountryFile(stage, countryMap, ipType, outcomes) ==
    /\ pc = stage
    /\ \E c \in todo, o \in outcomes :
        LET prefixes == countryMap[c]
            file == CountryFileName(c, ipType)
        IN  IF Len(prefixes) = 0
            THEN /\ o = "none"
                 /\ err' = "none"
                 /\ pc' = Then("none", stage)
                 /\ trace' = NoteStep(trace, "country", "none")
                 /\ todo' = todo \ {c}
                 /\ UNCHANGED <<fs, dirs, lost>>
            ELSE IF o = "mkdir"
            THEN /\ err' = "creating country directory"
                 /\ pc' = Then("creating country directory", stage)
                 /\ trace' = NoteStep(trace, "country", "creating country directory")
                 /\ UNCHANGED <<fs, dirs, lost, todo>>
            ELSE IF o = "open"
            THEN /\ dirs' = dirs \cup {"by_country", CountryDir(c)}
                 /\ err' = "creating file"
                 /\ pc' = Then("creating file", stage)
                 /\ trace' = NoteStep(trace, "country", "creating file")
                 /\ UNCHANGED <<fs, lost, todo>>
            ELSE /\ o # "none" => MayFail(o, writeNFTSet(c, prefixes, ipType))
                 /\ dirs' = dirs \cup {"by_country", CountryDir(c)}
                 /\ fs' = WriteLines(OpenFile(fs, file), file,
                                     CountryFileLines(c, prefixes, ipType, o))
                 /\ lost' = IF o = "none" THEN lost ELSE lost + 1
                 /\ err' = "none"
                 /\ pc' = Then("none", stage)
                 /\ trace' = NoteStep(trace, "country", "none")
                 /\ todo' = todo \ {c}
    /\ UNCHANGED <<archive, db, visited, read, mmdbData, ipv4, ipv6, fs0, dirs0,
                   runNo, prevOk, path, pathOk, code, codeOk>>

\* the calls as they go when every write to an open file succeeds
Reliable == {"none", "mkdir", "open"}

GenerateGlobalIPv4 == generateGlobalFile("global4", ipv4, "ipv4", "global6", {}, Reliable)

GenerateGlobalIPv6 ==
    generateGlobalFile("global6", ipv6, "ipv6", "country4", DOMAIN ipv4, Reliable)

GenerateCountryFileIPv4 == generateCountryFile("country4", ipv4, "ipv4", Reliable)

\* the second loop passing "ipv4" for ipType
GenerateCountryFileIPv6AsIPv4 == generateCountryFile("country6", ipv6, "ipv4", Reliable)

GenerateCountryFileIPv6 == generateCountryFile("country6", ipv6, "ipv6", Reliable)

\* the same calls when a write fails: fmt.Fprint's error is dropped
GlobalIPv4WriteFails ==
    generateGlobalFile("global4", ipv4, "ipv4", "global6", {}, WriteFailures)

GlobalIPv6WriteFails ==
    generateGlobalFile("global6", ipv6, "ipv6", "country4", DOMAIN ipv4, WriteFailures)

CountryFileIPv4WriteFails == generateCountryFile("country4", ipv4, "ipv4", WriteFailures)

CountryFileIPv6WriteFails == generateCountryFile("country6", ipv6, "ipv6", WriteFailures)

\* the range over g.ipv4 is exhausted: the range over g.ipv6 starts
EndCountryFilesIPv4 ==
    /\ pc = "country4"
    /\ todo = {}
    /\ pc' = "country6"
    /\ todo' = DOMAIN ipv6
    /\ trace' = NoteStep(trace, "country", "none")
    /\ UNCHANGED <<err, archive, db, visited, read, mmdbData, ipv4, ipv6, fs, dirs, fs0,
                   dirs0, lost, runNo, prevOk, path, pathOk, code, codeOk>>

\* the range over g.ipv6 is exhausted: generateCountryFiles, generateAllFiles
\* and run return nil
EndCountryFilesIPv6 ==
    /\ pc = "country6"
    /\ todo = {}
    /\ pc' = "done"
    /\ UNCHANGED <<err, archive, db, visited, read, mmdbData, ipv4, ipv6, fs, dirs, fs0,
                   dirs0, todo, trace, lost, runNo, prevOk, path, pathOk, code, codeOk>>

\* the program is started again on the same upstream archive: main builds a
\* new generator; the disk is as the run before left it
Restart ==
    /\ pc \in {"done", "failed"}
    /\ runNo < MaxRuns
    /\ pc' = "fetch"
    /\ err' = "none"
    /\ visited' = 0 /\ read' = {} /\ mmdbData' = NoData
    /\ ipv4' = EmptyMap /\ ipv6' = EmptyMap
    /\ todo' = {} /\ trace' = <<>> /\ lost' = 0
    /\ runNo' = runNo + 1
    /\ prevOk' = (pc = "done" /\ lost = 0)
    /\ fs0' = fs /\ dirs0' = dirs
    /\ UNCHANGED <<archive, db, fs, dirs, path, pathOk, code, codeOk>>

Next ==
    \/ Fetch
    \/ Extract
    \/ LoadGeoIPData
    \/ MkdirByCountry
    \/ GenerateGlobalIPv4
    \/ GenerateGlobalIPv6
    \/ GenerateCountryFileIPv4
    \/ EndCountryFilesIPv4
    \/ GenerateCountryFileIPv6
    \/ EndCountryFilesIPv6
    \/ Restart

\* the run on a disk whose writes succeed
Spec == Init /\ [][Next]_vars

NextWriteFails ==
    \/ Next
    \/ GlobalIPv4WriteFails
    \/ GlobalIPv6WriteFails
    \/ CountryFileIPv4WriteFails
    \/ CountryFileIPv6WriteFails

\* the run on a disk where writes to an open file may fail
SpecWriteFails == Init /\ [][NextWriteFails]_vars

-----------------------------------------------------------------------------
(* extractMMDBFromTar on every short archive *)

InitExtract ==
    /\ pc = "extract"
    /\ NoRun /\ NoCheck /\ EmptyDisk
    /\ archive \in SeqsUpTo(Entries, MaxEntries)
    /\ db = <<>>
    /\ mmdbData = NoData

SpecExtract == InitExtract /\ [][Extract]_vars

-----------------------------------------------------------------------------
(* loadGeoIPData on every short sequence of records *)

InitLoad ==
    /\ pc = "load"
    /\ NoRun /\ NoCheck /\ EmptyDisk
    /\ archive = <<>>
    /\ mmdbData \in {"mmdb", "junk"}
    /\ db \in SeqsUpTo(Records, MaxRecords)

SpecLoad == InitLoad /\ [][LoadGeoIPData]_vars

-----------------------------------------------------------------------------
(* isValidTarPath applied to every short entry name *)

PathChars == {"a", ".", "/", "\\"}

InitTarPath ==
    /\ Idle
    /\ pc = "check"
    /\ path \in SeqsUpTo(PathChars, MaxPathLen)
    /\ pathOk = FALSE
    /\ code = <<>> /\ codeOk = FALSE

CheckTarPath ==
    /\ pc = "check"
    /\ pc' = "checked"
    /\ pathOk' = isValidTarPath(path)
    /\ IdleUnchanged
    /\ UNCHANGED <<path, code, codeOk>>

SpecTarPath == InitTarPath /\ [][CheckTarPath]_vars

-----------------------------------------------------------------------------
(* isValidCountryCode applied to every short byte string.  The bytes: '0',
   '@', 'A', 'Z', '[', 'a', and 0xC3 0x89 / 0xC3 0xA9, the UTF-8 encodings of
   the two-byte letters U+00C9 and U+00E9. *)

CodeBytes == {48, 64, 65, 90, 91, 97, 137, 169, 195}

InitCountryCode ==
    /\ Idle
    /\ pc = "check"
    /\ code \in SeqsUpTo(CodeBytes, MaxCodeLen)
    /\ codeOk = FALSE
    /\ path = <<>> /\ pathOk = FALSE

CheckCountryCode ==
    /\ pc = "check"
    /\ pc' = "checked"
    /\ codeOk' = isValidCountryCode(code)
    /\ IdleUnchanged
    /\ UNCHANGED <<path, pathOk, code>>

SpecCountryCode == InitCountryCode /\ [][CheckCountryCode]_vars

-----------------------------------------------------------------------------
(* Claims about isValidTarPath and isValidCountryCode *)

\* the elements of p between separators of either kind
Segments(p) == {SplitPath([i \in 1..Len(p) |-> IF p[i] = "\\" THEN "/" ELSE p[i]], <<>>)[k] :
                  k \in 1..Len(SplitPath([i \in 1..Len(p) |-> IF p[i] = "\\" THEN "/" ELSE p[i]], <<>>))}

HasDotDotSegment(p) == DotDot \in Segments(p)

LeadingSeparator(p) == p # <<>> /\ Head(p) \in {"/", "\\"}

\* C1: isValidTarPath rejects every path that contains a ".." segment or
\* starts with a path separator, and accepts every relative path with no
\* ".." segment (a name with two dots inside a file name included).
C1_PathCheck ==
    pc = "checked" =>
        pathOk = ~(HasDotDotSegment(path) \/ LeadingSeparator(path))

\* C4: isValidCountryCode(s) holds exactly when s is two characters, each in
\* 'A'..'Z'.
C4_CountryCode ==
    pc = "checked" =>
        codeOk = (/\ Len(Runes(code)) = 2
                  /\ \A i \in 1..Len(Runes(code)) : Runes(code)[i] \in 65..90)

C4_Witness == pc = "checked" /\ codeOk /\ code = <<65, 90>>

C4_WitnessReject == pc = "checked" /\ ~codeOk /\ code = <<195, 137>>

-----------------------------------------------------------------------------
(* Claims about extractMMDBFromTar, under SpecExtract *)

Extracted == trace # <<>> /\ Last(trace).stage = "extract"

Qualifies(i) ==
    isValidTarPath(archive[i].name) /\ HasSuffix(archive[i].name, MmdbSuffix)

\* entry i is the first qualifying entry and the stream is intact up to its header
FirstMatch(i) ==
    /\ i \in 1..Len(archive)
    /\ Qualifies(i)
    /\ \A j \in 1..(i - 1) : ~Qualifies(j)
    /\ \A j \in 1..i : archive[j].fault # "header"

\* C2: extraction returns the content of the first entry, in archive order,
\* whose name passes the path check and ends with .mmdb, and visits no entry
\* after it; an entry whose name fails the path check is skipped and its
\* content is never read, wherever it stands and whatever its suffix.
C2_FirstSafeMatch ==
    Extracted =>
        /\ \A i \in 1..Len(archive) :
              (FirstMatch(i) /\ archive[i].fault = "none"
                  /\ archive[i].size <= maxDownloadSize)
              => /\ err = "none"
                 /\ mmdbData = archive[i].data
                 /\ read = {i}
                 /\ visited = i
        /\ \A i \in read : isValidTarPath(archive[i].name)
        /\ err = "none" => \E i \in 1..Len(archive) : FirstMatch(i) /\ read = {i}

C2_Witness ==
    /\ Extracted
    /\ Len(archive) = 2
    /\ archive[1].name = NameEvil /\ archive[1].data = "junk"
    /\ archive[2].name = NameFoo /\ archive[2].data = "mmdb"
    /\ err = "none" /\ mmdbData = "mmdb" /\ read = {2}

C2_WitnessShortCircuit ==
    /\ Extracted
    /\ Len(archive) = 2
    /\ archive[1].name = NameFoo /\ archive[2].name = NameDb
    /\ err = "none" /\ visited = 1

\* C3: when the first qualifying entry declares more than maxDownloadSize
\* bytes, extraction fails before reading any of its content, looks at no
\* later entry, and the run ends in failure; a declared size up to the
\* ceiling is not rejected.
C3_SizeCeiling ==
    Extracted =>
        \A i \in 1..Len(archive) :
            FirstMatch(i) =>
                IF archive[i].size > maxDownloadSize
                THEN /\ err = "MMDB file too large"
                     /\ read = {}
                     /\ mmdbData = NoData
                     /\ visited = i
                     /\ pc = "failed"
                ELSE /\ err # "MMDB file too large"
                     /\ archive[i].fault = "none" => err = "none" /\ pc = "load"

C3_Witness ==
    /\ Extracted
    /\ Len(archive) = 2
    /\ archive[1].name = NameFoo /\ archive[1].size = maxDownloadSize + 1
    /\ archive[2].name = NameDb /\ archive[2].size = 1
    /\ pc = "failed" /\ read = {}

C3_WitnessAtCeiling ==
    /\ Extracted
    /\ Len(archive) = 1
    /\ archive[1].name = NameFoo /\ archive[1].size = maxDownloadSize
    /\ err = "none"

-----------------------------------------------------------------------------
(* Claims about loadGeoIPData, under SpecLoad *)

Loaded == trace # <<>> /\ Last(trace).stage = "load" /\ Last(trace).ok

TwoUpper(c) == Len(c) = 2 /\ \A i \in 1..Len(c) : c[i] \in 65..90

Counts(r, c, is4) == r.decoded /\ r.code = c /\ TwoUpper(c) /\ r.pfx.is4 = is4

\* the prefixes of the records that count for code c and the family, in order
RECURSIVE Bucket(_, _, _)
Bucket(rs, c, is4) ==
    IF rs = <<>> THEN <<>>
    ELSE (IF Counts(Head(rs), c, is4) THEN <<Head(rs).pfx>> ELSE <<>>)
         \o Bucket(Tail(rs), c, is4)

BucketIs(m, c, is4) ==
    IF Bucket(db, c, is4) = <<>> THEN c \notin DOMAIN m
    ELSE c \in DOMAIN m /\ m[c] = Bucket(db, c, is4)

\* C5: after loadGeoIPData each family's bucket for a code is exactly the
\* subsequence, in decoder order and with duplicates, of that family's
\* prefixes whose record decoded with that code; undecodable records and
\* empty or invalid codes add nothing and stop nothing; no key is invalid or
\* has an empty list.
C5_Buckets ==
    Loaded =>
        \A c \in {db[i].code : i \in 1..Len(db)} \cup DOMAIN ipv4 \cup DOMAIN ipv6 :
            BucketIs(ipv4, c, TRUE) /\ BucketIs(ipv6, c, FALSE)

C5_Witness ==
    /\ Loaded
    /\ db = <<Record(P1, TRUE, US), Record(P2, TRUE, LowerUS), Record(P1, TRUE, <<>>)>>
    /\ DOMAIN ipv4 = {US} /\ ipv4[US] = <<P1>> /\ DOMAIN ipv6 = {}

C5_WitnessDuplicate ==
    /\ Loaded
    /\ db = <<Record(P1, TRUE, US), Record(P1, FALSE, <<>>), Record(P1, TRUE, US)>>
    /\ ipv4[US] = <<P1, P1>>

-----------------------------------------------------------------------------
(* Claims about the writer and the whole run, under Spec *)

Ran(stage) == \E i \in 1..Len(trace) : trace[i].stage = stage

Succeeded(stage) == \E i \in 1..Len(trace) : trace[i].stage = stage /\ trace[i].ok

NonEmpty(m) == {c \in DOMAIN m : m[c] # <<>>}

\* ascending order of two-letter codes
CodeBefore(a, b) == a[1] < b[1] \/ (a[1] = b[1] /\ a[2] < b[2])

\* the k-th five-line set block of a file that starts with the header
BlockAt(lines, k) == SubSeq(lines, 5 * k - 2, 5 * k + 2)

\* the code whose set block, for map m and the family, is block k of the file
CodeAt(lines, m, ipType, k) ==
    CHOOSE c \in NonEmpty(m) : BlockAt(lines, k) = writeNFTSet(c, m[c], ipType)

GlobalFileIs(lines, m, ipType) ==
    LET n == Cardinality(NonEmpty(m))
    IN  /\ Len(lines) = 3 + 5 * n
        /\ SubSeq(lines, 1, 2) = Header
        /\ lines[Len(lines)] = "}"
        /\ \A k \in 1..n :
              \E c \in NonEmpty(m) : BlockAt(lines, k) = writeNFTSet(c, m[c], ipType)
        /\ \A k \in 1..(n - 1) :
              CodeBefore(CodeAt(lines, m, ipType, k), CodeAt(lines, m, ipType, k + 1))

\* C6: a global file holds the two header lines, then one set block for
\* each code with at least one prefix, the blocks in strictly ascending
\* order of code and each listing its bucket in bucket order, then one
\* closing line; for an empty mapping, the header and the closing line only.
C6_GlobalFile ==
    lost = 0 =>
        /\ Succeeded("global4") =>
              /\ GlobalFile("ipv4") \in DOMAIN fs
              /\ GlobalFileIs(fs[GlobalFile("ipv4")], ipv4, "ipv4")
        /\ Succeeded("global6") =>
              /\ GlobalFile("ipv6") \in DOMAIN fs
              /\ GlobalFileIs(fs[GlobalFile("ipv6")], ipv6, "ipv6")

C6_Witness ==
    /\ Succeeded("global6") /\ lost = 0
    /\ db = <<Record(P1, TRUE, US), Record(P2, TRUE, DE)>>
    /\ fs0 = Stale
    /\ Len(fs[GlobalFile("ipv4")]) = 13
    /\ fs[GlobalFile("ipv6")] = Header \o Closing

Untouched(f) ==
    /\ f \in DOMAIN fs <=> f \in DOMAIN fs0
    /\ f \in DOMAIN fs => fs[f] = fs0[f]

CountryFileIs(c, m, ipType) ==
    LET f == CountryFileName(c, ipType)
        g == fs[GlobalFile(ipType)]
    IN  IF c \in NonEmpty(m)
        THEN /\ f \in DOMAIN fs
             /\ CountryDir(c) \in dirs
             /\ Len(fs[f]) = 8
             /\ SubSeq(fs[f], 1, 2) = Header
             /\ fs[f][8] = "}"
             /\ fs[f][3] = "    set " \o CodeStr(c) \o " {"
             /\ \E k \in 1..Cardinality(NonEmpty(m)) : BlockAt(fs[f], 1) = BlockAt(g, k)
        ELSE Untouched(f)

\* C7: after a successful generateAllFiles, by_country/C/C_F.nft is written
\* exactly when the F bucket of C is non-empty, and its one set block is the
\* block of C in the global file of F.
C7_CountryFiles ==
    (pc = "done" /\ lost = 0) =>
        \A c \in {US, DE} \cup DOMAIN ipv4 \cup DOMAIN ipv6 :
            CountryFileIs(c, ipv4, "ipv4") /\ CountryFileIs(c, ipv6, "ipv6")

C7_Witness ==
    /\ pc = "done" /\ lost = 0 /\ runNo = 1
    /\ db = <<Record(P1, TRUE, US), Record(P1, TRUE, US)>>
    /\ fs0 = EmptyMap
    /\ CountryFileName(US, "ipv4") \in DOMAIN fs
    /\ CountryFileName(US, "ipv6") \notin DOMAIN fs

\* the files a run with these buckets opens
IntendedFiles ==
    {GlobalFile("ipv4"), GlobalFile("ipv6")}
        \cup {CountryFileName(c, "ipv4") : c \in NonEmpty(ipv4)}
        \cup {CountryFileName(c, "ipv6") : c \in NonEmpty(ipv6)}

\* C8: a second run of the writer on the same buckets leaves every output
\* file as the first run left it, whatever order the per-country loops take
\* and whatever the files held before the first run (a file the run opens
\* keeps nothing of its earlier content).
C8_Idempotent ==
    (pc = "done" /\ lost = 0) =>
        /\ \A f \in IntendedFiles :
              /\ f \in DOMAIN fs
              /\ SubSeq(fs[f], 1, 2) = Header
              /\ \A i \in 3..Len(fs[f]) : fs[f][i] \notin {"stale", Header[1], Header[2]}
        /\ (runNo > 1 /\ prevOk) => (fs = fs0 /\ dirs = dirs0)

C8_Witness ==
    /\ pc = "done" /\ lost = 0 /\ runNo = 2 /\ prevOk
    /\ Cardinality(DOMAIN ipv4) = 2
    /\ fs = fs0
    /\ CountryFileName(US, "ipv6") \in DOMAIN fs
    /\ fs[CountryFileName(US, "ipv6")] = <<"stale">>

\* C9: every file-system failure in the writer, a failed write included, is
\* fatal: the run ends in failure at once and never reports success with
\* intended content missing.
C9_WriteFailureFatal == lost > 0 => pc = "failed"

StageOrder == <<"fetch", "extract", "load", "mkdir", "global4", "global6", "country">>

CountryOutputs == {CountryFileName(c, t) : c \in {US, DE}, t \in {"ipv4", "ipv6"}}

\* C10: the stages run in the order fetch, extract, load, write, each at
\* most once; a stage starts only if every earlier one succeeded; a failure
\* before the write stage leaves the disk as it was; the write stage goes
\* by_country, geoip_ipv4.nft, geoip_ipv6.nft, per-country files and stops
\* at the first step that fails.
C10_StageOrder ==
    /\ Len(trace) <= Len(StageOrder)
    /\ \A i \in 1..Len(trace) : trace[i].stage = StageOrder[i]
    /\ \A i \in 1..(Len(trace) - 1) : trace[i].ok
    /\ pc = "failed" <=> (trace # <<>> /\ ~Last(trace).ok)
    /\ pc = "failed" => err # "none"
    /\ pc = "done" => Len(trace) = Len(StageOrder)
    /\ ~Ran("mkdir") => (fs = fs0 /\ dirs = dirs0)
    /\ ~Ran("global4") => (fs = fs0 /\ dirs \subseteq dirs0 \cup {"by_country"})
    /\ ~Ran("global6") => Untouched(GlobalFile("ipv6"))
    /\ ~Ran("country") =>
          /\ \A f \in CountryOutputs : Untouched(f)
          /\ dirs \subseteq dirs0 \cup {"by_country"}

C10_Witness ==
    /\ pc = "failed" /\ err = "opening MMDB"
    /\ Len(trace) = 3
    /\ fs = Stale

C10_WitnessWriteStops ==
    /\ pc = "failed" /\ Last(trace).stage = "global4"
    /\ db # <<>> /\ fs0 = EmptyMap /\ fs = EmptyMap /\ dirs = {"by_country"}

====
